---- MODULE Spec2Model ----
(***************************************************************************)
(* The XModel worker of the inference server                               *)
(* (src/src/proteus/workers/xmodel.cpp): the lifecycle hooks, the Run      *)
(* consumer loop with its in-flight counter, the tasks it pushes to the    *)
(* thread pool, the buffer pool the tasks return to and the per-request    *)
(* callbacks.  The host that calls the hooks, the batcher that builds      *)
(* Batches, the thread pool and the accelerator runtime are the worker's   *)
(* environment.                                                            *)
(* The second part is the completion adapter of the benchmark harness      *)
(* (src/apps/mlcommons/src/system_under_test.cpp): IssueQuery enqueues one *)
(* future per sample, FinishQuery drains the queue and reports results.    *)
(***************************************************************************)
EXTENDS Integers, Sequences, FiniteSets, TLC

\* ---- program constants ----
kMaxBufferNum == 50
kBufferNum == 10
kThreads == 3
kPoolMultiplier == 4
kNumBufferAuto == -1
kMaxBulk == 16

\* ---- bounds of the model ----
MaxBatches == 5
MaxReqs == 2
MaxRequests == 5
MaxFailures == 1
MaxSamples == 3

\* a key the configuration does not have
NoParam == 0
\* the null Batch pointer
NULL == 0

BatchIds == 1..MaxBatches
FutureIds == 1..MaxSamples
MaxSets == MaxReqs

\* the deployments of the worker: the "max_buffer_num" and "threads" keys of
\* its RequestParameters, the leading (batch) dimension of the input tensor of
\* the model the "xmodel" key names, the number of jobs the accelerator
\* runtime may have failed at a time, the number of input tensors the
\* clients put into a request, and the kernel of the model's subgraph
Configurations ==
  { [max_buffer_num |-> NoParam, threads |-> 1, shape0 |-> 2, faults |-> MaxFailures,
     tensors |-> 1, kernel |-> "DPUCZDX8G"],
    [max_buffer_num |-> 2, threads |-> 2, shape0 |-> 2, faults |-> 0, tensors |-> 1,
     kernel |-> "DPUCZDX8G"],
    [max_buffer_num |-> 2, threads |-> 2, shape0 |-> 1, faults |-> 0, tensors |-> 1,
     kernel |-> "DPUCZDX8G"],
    [max_buffer_num |-> 1, threads |-> NoParam, shape0 |-> 2, faults |-> 0, tensors |-> 2,
     kernel |-> "DPUCADF8H"] }

VARIABLES
  parameters,       \* the RequestParameters (and runtime) the worker is loaded with
  host_pc,          \* position of the host that drives the lifecycle hooks
  hooks,            \* the hooks begun so far, in order
  max_buffer_num_,  \* Worker::max_buffer_num_
  batch_size_,      \* Worker::batch_size_
  buffer_num,       \* the count doAllocate returned
  input_buffers_,   \* Worker::input_buffers_, the input pool queue
  output_buffers_,  \* Worker::output_buffers_, the output pool queue
  pool_threads,     \* pool_.size()
  pool_q,           \* tasks pushed to pool_ and not yet popped
  pool_flag,        \* pool_: "run", "done" (stop(true)) or "stop" (stop(false))
  input_queue,      \* the BatchPtrQueue handed to doRun
  batches,          \* the Batches built so far
  run_pc,           \* position of doRun
  run_batch,        \* doRun's local `batch`
  pool_size,        \* doRun's local atomic counter
  dequeued,         \* what doRun has dequeued, in order
  pushes,           \* per Batch, how often it was pushed to pool_
  slept,            \* the Batches doRun slept for
  task_pc,          \* per Batch, position of its pool task
  task_i,           \* per Batch, loop index of its pool task
  jobs,             \* per Batch, state of its runtime jobs
  callbacks,        \* per Batch, the responses handed to callbacks, in order
  responses,        \* per Batch, its task's local vector `responses`
  trace,            \* per Batch, what its running task has done so far, in order
  crashed,          \* the process died
  queue_,           \* SystemUnderTest::queue_, the futures enqueued and not yet drained
  issue_samples,    \* the samples of the running IssueQuery call not yet issued
  request_id,       \* per future, the ID set on its request
  future_state,     \* per future: "none", "pending", "ok" or "error"
  resolved,         \* the futures in the order they resolved
  futures,          \* FinishQuery's local vector `futures`
  finish_i,         \* FinishQuery's loop index i
  error_logged,     \* the futures FinishQuery printed the error line for
  completed         \* the calls of QuerySamplesComplete, in order

vars == <<parameters, host_pc, hooks, max_buffer_num_, batch_size_, buffer_num, input_buffers_,
          output_buffers_, pool_threads, pool_q, pool_flag, input_queue,
          batches, run_pc, run_batch, pool_size, dequeued, pushes, slept,
          task_pc, task_i, jobs, callbacks, responses, trace, crashed,
          queue_, issue_samples, request_id, future_state, resolved, futures,
          finish_i, error_logged, completed>>

hostVars == <<parameters, host_pc, hooks, max_buffer_num_, batch_size_, buffer_num, pool_threads, pool_flag>>
runVars == <<run_pc, run_batch, pool_size, dequeued, pushes, slept>>
taskVars == <<task_pc, task_i, jobs, callbacks, responses, trace>>
bufVars == <<input_buffers_, output_buffers_>>
sutVars == <<queue_, issue_samples, request_id, future_state, resolved, futures,
             finish_i, error_logged, completed>>
workerVars == <<hostVars, bufVars, pool_q, input_queue, batches, runVars, taskVars, crashed>>

\* ---- helpers ----
Range(s) == {s[i] : i \in 1..Len(s)}

Count(s, x) == Cardinality({i \in 1..Len(s) : s[i] = x})

Iota(n) == [i \in 1..n |-> i]

Take(s, n) == SubSeq(s, 1, n)

Drop(s, n) == SubSeq(s, n + 1, Len(s))

EmptyBatch == [nreq |-> 0, input_buffers |-> <<>>, output_buffers |-> <<>>]

\* the Batches built by the batcher so far
Created == {b \in BatchIds : batches[b].nreq > 0}

\* the Batches whose task a pool thread is executing
Running == {b \in BatchIds : task_pc[b] \in {"exec", "wait", "respond", "return", "dec"}}

\* the Batches pushed to the pool whose task has not finished
InFlight == {b \in BatchIds : pushes[b] > 0 /\ task_pc[b] # "done"}

\* SystemUnderTest::SystemUnderTest: nothing issued, FinishQuery started
SutConstructed ==
  /\ queue_ = <<>>
  /\ issue_samples = <<>>
  /\ request_id = [f \in FutureIds |-> <<>>]
  /\ future_state = [f \in FutureIds |-> "none"]
  /\ resolved = <<>>
  /\ futures = <<>>
  /\ finish_i = 0
  /\ error_logged = {}
  /\ completed = <<>>

Init ==
  /\ parameters \in Configurations
  /\ host_pc = "init"
  /\ hooks = <<>>
  /\ max_buffer_num_ = 0
  /\ batch_size_ = 0
  /\ buffer_num = 0
  /\ input_buffers_ = <<>>
  /\ output_buffers_ = <<>>
  /\ pool_threads = 0
  /\ pool_q = <<>>
  /\ pool_flag = "run"
  /\ input_queue = <<>>
  /\ batches = [b \in BatchIds |-> EmptyBatch]
  /\ run_pc = "idle"
  /\ run_batch = NULL
  /\ pool_size = 0
  /\ dequeued = <<>>
  /\ pushes = [b \in BatchIds |-> 0]
  /\ slept = {}
  /\ task_pc = [b \in BatchIds |-> "none"]
  /\ task_i = [b \in BatchIds |-> 0]
  /\ jobs = [b \in BatchIds |-> <<>>]
  /\ callbacks = [b \in BatchIds |-> <<>>]
  /\ responses = [b \in BatchIds |-> <<>>]
  /\ trace = [b \in BatchIds |-> <<>>]
  /\ crashed = FALSE
  /\ SutConstructed

\* ---- lifecycle hooks ----

\* XModel::doInit: max_buffer_num_ from the "max_buffer_num" parameter or
\* kMaxBufferNum, batch_size_ from the leading dimension of the model's input
doInit(params) ==
  /\ ~crashed
  /\ host_pc = "init"
  /\ hooks' = Append(hooks, "Init")
  /\ max_buffer_num_' = IF params.max_buffer_num # NoParam THEN params.max_buffer_num
                        ELSE kMaxBufferNum
  /\ batch_size_' = params.shape0
  /\ host_pc' = "allocate"
  /\ UNCHANGED <<sutVars, parameters, buffer_num, pool_threads, pool_flag, bufVars, pool_q,
                 input_queue, batches, runVars, taskVars, crashed>>

\* the count the host asks doAllocate for: the configured pool size, or "auto"
AllocateNum ==
  IF parameters.max_buffer_num = NoParam THEN kNumBufferAuto ELSE max_buffer_num_

\* XModel::doAllocate: num (or kBufferNum for "auto") Buffer sets into each pool queue
doAllocate(num) ==
  /\ ~crashed
  /\ host_pc = "allocate"
  /\ hooks' = Append(hooks, "Allocate")
  /\ LET n == IF num = kNumBufferAuto THEN kBufferNum ELSE num
     IN /\ input_buffers_' = input_buffers_ \o Iota(n)
        /\ output_buffers_' = output_buffers_ \o Iota(n)
        /\ buffer_num' = n
  /\ host_pc' = "acquire"
  /\ UNCHANGED <<sutVars, parameters, max_buffer_num_, batch_size_, pool_threads, pool_flag, pool_q, input_queue,
                 batches, runVars, taskVars, crashed>>

\* XModel::doAcquire: the pool gets "threads" threads, or kThreads
doAcquire(params) ==
  /\ ~crashed
  /\ host_pc = "acquire"
  /\ hooks' = Append(hooks, "Acquire")
  /\ pool_threads' = IF params.threads # NoParam THEN params.threads ELSE kThreads
  /\ host_pc' = "spawn"
  /\ UNCHANGED <<sutVars, parameters, max_buffer_num_, batch_size_, buffer_num, pool_flag, bufVars, pool_q, input_queue,
                 batches, runVars, taskVars, crashed>>

\* faulty variant: the Run thread is started before doAcquire
spawn_early ==
  /\ ~crashed
  /\ host_pc = "acquire"
  /\ run_pc = "idle"
  /\ hooks' = Append(hooks, "Run")
  /\ run_pc' = "dequeue"
  /\ pool_size' = 0
  /\ UNCHANGED host_pc
  /\ UNCHANGED <<sutVars, parameters, max_buffer_num_, batch_size_, buffer_num, pool_threads, pool_flag, bufVars, pool_q,
                 input_queue, batches, run_batch, dequeued, pushes, slept, taskVars, crashed>>

\* XModel::spawn: the Run thread starts; max_pool_size is fixed from pool_.size()
spawn ==
  /\ ~crashed
  /\ host_pc = "spawn"
  /\ hooks' = Append(hooks, "Run")
  /\ run_pc' = "dequeue"
  /\ pool_size' = 0
  /\ host_pc' = "join"
  /\ UNCHANGED <<sutVars, parameters, max_buffer_num_, batch_size_, buffer_num, pool_threads, pool_flag, bufVars, pool_q,
                 input_queue, batches, run_batch, dequeued, pushes, slept, taskVars, crashed>>

\* XModel::doRelease, called once the Run thread has returned: empty
doRelease ==
  /\ ~crashed
  /\ host_pc = "join"
  /\ run_pc = "done"
  /\ hooks' = Append(hooks, "Release")
  /\ host_pc' = "deallocate"
  /\ UNCHANGED <<sutVars, parameters, max_buffer_num_, batch_size_, buffer_num, pool_threads, pool_flag, bufVars, pool_q,
                 input_queue, batches, runVars, taskVars, crashed>>

\* ctpl::thread_pool::stop: stop(true) lets the threads drain the queue,
\* stop(false) drops the queued tasks; both then join the threads
pool_stop(isWait) ==
  /\ pool_flag' = IF isWait THEN "done" ELSE "stop"
  /\ pool_q' = IF isWait THEN pool_q ELSE <<>>

\* faulty variant: pool_.stop(false), which drops the queued tasks
doDeallocate_nowait ==
  /\ ~crashed
  /\ host_pc = "deallocate"
  /\ hooks' = Append(hooks, "Deallocate")
  /\ pool_stop(FALSE)
  /\ host_pc' = "stopping"
  /\ UNCHANGED <<sutVars, parameters, max_buffer_num_, batch_size_, buffer_num, pool_threads, bufVars,
                 input_queue, batches, runVars, taskVars, crashed>>

\* XModel::doDeallocate: pool_.stop(true)
doDeallocate ==
  /\ ~crashed
  /\ host_pc = "deallocate"
  /\ hooks' = Append(hooks, "Deallocate")
  /\ pool_stop(TRUE)
  /\ host_pc' = "stopping"
  /\ UNCHANGED <<sutVars, parameters, max_buffer_num_, batch_size_, buffer_num, pool_threads, bufVars,
                 input_queue, batches, runVars, taskVars, crashed>>

\* the join inside stop(): returns when every pool thread has exited
pool_join ==
  /\ ~crashed
  /\ host_pc = "stopping"
  /\ Running = {}
  /\ pool_q = <<>>
  /\ host_pc' = "destroy"
  /\ UNCHANGED <<sutVars, parameters, hooks, max_buffer_num_, batch_size_, buffer_num, pool_threads, pool_flag, bufVars,
                 pool_q, input_queue, batches, runVars, taskVars, crashed>>

\* XModel::doDestroy: empty
doDestroy ==
  /\ ~crashed
  /\ host_pc = "destroy"
  /\ hooks' = Append(hooks, "Destroy")
  /\ host_pc' = "end"
  /\ UNCHANGED <<sutVars, parameters, max_buffer_num_, batch_size_, buffer_num, pool_threads, pool_flag, bufVars, pool_q,
                 input_queue, batches, runVars, taskVars, crashed>>

\* ---- environment: batcher, shutdown, accelerator runtime ----

\* the requests handed to the batcher so far
Requests == {<<b, k>> \in BatchIds \X (1..MaxReqs) : k <= batches[b].nreq}

\* the Buffer sets a Batch of nreq requests needs: batch_size_ requests per set
SetsFor(nreq) == (nreq * parameters.tensors + batch_size_ - 1) \div batch_size_

\* the batcher: checks the input and output Buffer sets out of the pool (waiting
\* for them when the pool is empty), builds the next Batch with nreq requests
\* and enqueues it
MakeBatch(nreq) ==
  /\ ~crashed
  /\ host_pc \in {"acquire", "spawn", "join"}
  /\ Cardinality(Created) < MaxBatches
  /\ Cardinality(Requests) + nreq <= MaxRequests
  /\ Len(input_buffers_) >= SetsFor(nreq)
  /\ Len(output_buffers_) >= SetsFor(nreq)
  /\ LET b == Cardinality(Created) + 1
     IN /\ batches' = [batches EXCEPT ![b] =
                         [nreq |-> nreq,
                          input_buffers |-> Take(input_buffers_, SetsFor(nreq)),
                          output_buffers |-> Take(output_buffers_, SetsFor(nreq))]]
        /\ input_queue' = Append(input_queue, b)
  /\ input_buffers_' = Drop(input_buffers_, SetsFor(nreq))
  /\ output_buffers_' = Drop(output_buffers_, SetsFor(nreq))
  /\ UNCHANGED <<sutVars, hostVars, pool_q, runVars, taskVars, crashed>>

SentinelSent == NULL \in Range(input_queue) \cup Range(dequeued)

\* the host asks the worker to shut down: the null sentinel is enqueued
Shutdown ==
  /\ ~crashed
  /\ host_pc \in {"acquire", "spawn", "join"}
  /\ ~SentinelSent
  /\ input_queue' = Append(input_queue, NULL)
  /\ UNCHANGED <<sutVars, hostVars, bufVars, pool_q, batches, runVars, taskVars, crashed>>

Failures == Cardinality({<<b, i>> \in BatchIds \X (1..MaxSets) :
                           i <= Len(jobs[b]) /\ jobs[b][i] = "failed"})

\* the accelerator runtime finishes job i of Batch b, with or without a failure
JobComplete(b, i, status) ==
  /\ ~crashed
  /\ i <= Len(jobs[b])
  /\ jobs[b][i] = "running"
  /\ status = "failed" => Failures < parameters.faults
  /\ jobs' = [jobs EXCEPT ![b][i] = status]
  /\ UNCHANGED <<sutVars, hostVars, bufVars, pool_q, input_queue, batches, runVars,
                 task_pc, task_i, callbacks, responses, trace, crashed>>

\* ---- XModel::doRun: the consumer loop ----

max_pool_size == pool_threads * kPoolMultiplier

\* faulty variant: the sentinel is skipped (continue instead of break)
RunDequeue_continue ==
  /\ ~crashed
  /\ run_pc = "dequeue"
  /\ input_queue # <<>>
  /\ run_batch' = Head(input_queue)
  /\ input_queue' = Tail(input_queue)
  /\ dequeued' = Append(dequeued, Head(input_queue))
  /\ run_pc' = IF Head(input_queue) = NULL THEN "dequeue" ELSE "inc"
  /\ UNCHANGED <<sutVars, hostVars, bufVars, pool_q, batches, pool_size, pushes, slept,
                 taskVars, crashed>>

\* wait_dequeue, then the sentinel check
RunDequeue ==
  /\ ~crashed
  /\ run_pc = "dequeue"
  /\ input_queue # <<>>
  /\ run_batch' = Head(input_queue)
  /\ input_queue' = Tail(input_queue)
  /\ dequeued' = Append(dequeued, Head(input_queue))
  /\ run_pc' = IF Head(input_queue) = NULL THEN "done" ELSE "inc"
  /\ UNCHANGED <<sutVars, hostVars, bufVars, pool_q, batches, pool_size, pushes, slept,
                 taskVars, crashed>>

\* pool_size++
RunIncrement ==
  /\ ~crashed
  /\ run_pc = "inc"
  /\ pool_size' = pool_size + 1
  /\ run_pc' = "check"
  /\ UNCHANGED <<sutVars, hostVars, bufVars, pool_q, input_queue, batches, run_batch, dequeued,
                 pushes, slept, taskVars, crashed>>

\* faulty variant: above the ceiling the Batch is dropped instead of delayed
RunCheck_reject ==
  /\ ~crashed
  /\ run_pc = "check"
  /\ run_pc' = IF pool_size > max_pool_size THEN "dequeue" ELSE "push"
  /\ run_batch' = IF pool_size > max_pool_size THEN NULL ELSE run_batch
  /\ UNCHANGED <<sutVars, hostVars, bufVars, pool_q, input_queue, batches, pool_size,
                 dequeued, pushes, slept, taskVars, crashed>>

\* if (pool_size > max_pool_size)
RunCheck ==
  /\ ~crashed
  /\ run_pc = "check"
  /\ run_pc' = IF pool_size > max_pool_size THEN "sleep" ELSE "push"
  /\ UNCHANGED <<sutVars, hostVars, bufVars, pool_q, input_queue, batches, run_batch, pool_size,
                 dequeued, pushes, slept, taskVars, crashed>>

\* sleep_for(10ms)
RunSleep ==
  /\ ~crashed
  /\ run_pc = "sleep"
  /\ slept' = slept \cup {run_batch}
  /\ run_pc' = "push"
  /\ UNCHANGED <<sutVars, hostVars, bufVars, pool_q, input_queue, batches, run_batch, pool_size,
                 dequeued, pushes, taskVars, crashed>>

\* pool_.push(task): the Batch moves into the task
RunPush ==
  /\ ~crashed
  /\ run_pc = "push"
  /\ pool_q' = Append(pool_q, run_batch)
  /\ pushes' = [pushes EXCEPT ![run_batch] = @ + 1]
  /\ task_pc' = [task_pc EXCEPT ![run_batch] = "queued"]
  /\ run_batch' = NULL
  /\ run_pc' = "dequeue"
  /\ UNCHANGED <<sutVars, hostVars, bufVars, input_queue, batches, pool_size, dequeued, slept,
                 task_i, jobs, callbacks, responses, trace, crashed>>

\* ---- the pool task of a Batch ----

\* a free pool thread pops the oldest task
PoolPop(b) ==
  /\ ~crashed
  /\ pool_q # <<>>
  /\ b = Head(pool_q)
  /\ pool_flag # "stop"
  /\ Cardinality(Running) < pool_threads
  /\ pool_q' = Tail(pool_q)
  /\ task_pc' = [task_pc EXCEPT ![b] = "exec"]
  /\ task_i' = [task_i EXCEPT ![b] = 1]
  /\ UNCHANGED <<sutVars, hostVars, bufVars, input_queue, batches, runVars, jobs, callbacks, responses, trace,
                 crashed>>

\* the identifier of request k of Batch b
RequestID(b, k) == <<b, k>>

\* the kernel of the subgraph, read by doInit
kernel_ == parameters.kernel

\* an entry of the trace of a task: what was done, and to which Buffer set,
\* tensor or request
Event(op, n) == <<op, n>>

\* sync_for_write of the input Buffers of set i, unless the kernel is DPUCADF8H
SyncForWrite(i) ==
  IF kernel_ # "DPUCADF8H" THEN <<Event("sync_for_write", i)>> ELSE <<>>

\* faulty variant: only the first output Buffer is synced
SyncForRead_first(b) ==
  IF kernel_ # "DPUCADF8H" THEN <<Event("sync_for_read", 1)>> ELSE <<>>

\* sync_for_read of all output Buffers of the Batch (outputs_ptrs_global),
\* unless the kernel is DPUCADF8H
SyncForRead(b) ==
  IF kernel_ # "DPUCADF8H"
    THEN [j \in 1..Len(batches[b].output_buffers) |-> Event("sync_for_read", j)]
    ELSE <<>>

\* faulty variant: the IDs are set one request off
NewResponses_shifted(b) ==
  [k \in 1..batches[b].nreq |->
     [id |-> RequestID(b, (k % batches[b].nreq) + 1), outputs |-> <<>>]]

\* the vector `responses` as it is built before the wait loop: one response
\* for each request, in order, with the request's ID and no output yet
NewResponses(b) ==
  [k \in 1..batches[b].nreq |-> [id |-> RequestID(b, k), outputs |-> <<>>]]

\* one round of the submission loop: sync_for_write and execute_async for
\* Buffer set task_i; after the last round the responses are set up
TaskExecuteAsync(b) ==
  /\ ~crashed
  /\ task_pc[b] = "exec"
  /\ jobs' = [jobs EXCEPT ![b] = Append(@, "running")]
  /\ trace' = [trace EXCEPT ![b] =
                 @ \o SyncForWrite(task_i[b]) \o <<Event("execute_async", task_i[b])>>]
  /\ IF task_i[b] < Len(batches[b].input_buffers)
       THEN /\ task_i' = [task_i EXCEPT ![b] = @ + 1]
            /\ UNCHANGED <<task_pc, responses>>
       ELSE /\ task_i' = [task_i EXCEPT ![b] = 1]
            /\ task_pc' = [task_pc EXCEPT ![b] = "wait"]
            /\ responses' = [responses EXCEPT ![b] = NewResponses(b)]
  /\ UNCHANGED <<sutVars, hostVars, bufVars, pool_q, input_queue, batches, runVars, callbacks, crashed>>

\* faulty variant: the wait returns after a timeout, finished or not
TaskWait_timeout(b) ==
  /\ ~crashed
  /\ task_pc[b] = "wait"
  /\ IF task_i[b] < Len(jobs[b])
       THEN /\ task_i' = [task_i EXCEPT ![b] = @ + 1]
            /\ trace' = [trace EXCEPT ![b] = Append(@, Event("wait", task_i[b]))]
            /\ UNCHANGED task_pc
       ELSE /\ task_i' = [task_i EXCEPT ![b] = 1]
            /\ trace' = [trace EXCEPT ![b] =
                           Append(@, Event("wait", task_i[b])) \o SyncForRead(b)]
            /\ task_pc' = [task_pc EXCEPT ![b] = "respond"]
  /\ UNCHANGED <<sutVars, hostVars, bufVars, pool_q, input_queue, batches, runVars, jobs,
                 callbacks, responses, crashed>>

\* one round of the wait loop: wait(job, -1) returns when the job has finished;
\* its status is not looked at.  After the last round the output Buffers are
\* synced for reading
TaskWait(b) ==
  /\ ~crashed
  /\ task_pc[b] = "wait"
  /\ jobs[b][task_i[b]] # "running"
  /\ IF task_i[b] < Len(jobs[b])
       THEN /\ task_i' = [task_i EXCEPT ![b] = @ + 1]
            /\ trace' = [trace EXCEPT ![b] = Append(@, Event("wait", task_i[b]))]
            /\ UNCHANGED task_pc
       ELSE /\ task_i' = [task_i EXCEPT ![b] = 1]
            /\ trace' = [trace EXCEPT ![b] =
                           Append(@, Event("wait", task_i[b])) \o SyncForRead(b)]
            /\ task_pc' = [task_pc EXCEPT ![b] = "respond"]
  /\ UNCHANGED <<sutVars, hostVars, bufVars, pool_q, input_queue, batches, runVars, jobs,
                 callbacks, responses, crashed>>

\* the number of input tensors of request k
RequestInputs(b, k) == parameters.tensors

\* the value of tensor_count when the response loop reaches request k: the
\* number of input tensors of the requests before it
RECURSIVE TensorCount(_, _)
TensorCount(b, k) == IF k = 1 THEN 0 ELSE TensorCount(b, k - 1) + RequestInputs(b, k - 1)

\* the data of the t-th tensor of the Batch, counted from 0 over its requests
\* in order
TensorData(b, t) == <<b, t + 1>>

\* the data of input tensor i of request k
InputData(b, k, i) == TensorData(b, TensorCount(b, k) + i - 1)

\* data that belongs to no tensor of the Batch: what an earlier Batch left in
\* a Buffer, the unused rest of a Buffer, and memory that is not a Buffer
Stale == <<0, 1>>
Padding == <<0, 2>>
Garbage == <<0, 3>>

\* the batcher fills the input Buffer sets in order, batch_size_ tensors each:
\* the tensor in a slot (counted from 0) of the Batch's set-th input set
InputBuffer(b, set, slot) ==
  LET t == (set - 1) * batch_size_ + slot
  IN IF t < TensorCount(b, batches[b].nreq + 1) THEN TensorData(b, t) ELSE Padding

\* the accelerator runtime is an identity: a finished job has copied its
\* input set to its output set
OutputBuffer(b, set, slot) ==
  IF jobs[b][set] = "ok" THEN InputBuffer(b, set, slot) ELSE Stale

\* what memcpy may read at output_index + tensor_count * output_size_:
\* output_index is the start of the first Buffer of the first output set,
\* which holds batch_size_ tensors; behind it the read leaves the Buffer and
\* yields whatever the memory there holds
OutputRead(b, tensor_count) ==
  IF tensor_count < batch_size_
    THEN {OutputBuffer(b, 1, tensor_count)}
    ELSE {Garbage, TensorData(b, tensor_count)}

\* the dimensions of one sample of the model's output tensor
SampleShape == <<2, 3>>

\* runner_->get_output_tensors()[0]->get_shape()
output_shape == <<parameters.shape0>> \o SampleShape

\* new_shape: output_shape without its first dimension
new_shape == [j \in 1..(Len(output_shape) - 1) |-> output_shape[j + 1]]

\* the output tensors the response loop may add for request k, one for each
\* of the request's input tensors
Outputs(b, k) ==
  {outputs \in [1..RequestInputs(b, k) -> [shape : {new_shape},
                                           data : {Stale, Padding, Garbage} \cup
                                                  {TensorData(b, t) : t \in 0..(MaxRequests * 2)}]] :
     \A i \in 1..RequestInputs(b, k) :
       outputs[i].data \in OutputRead(b, TensorCount(b, k) + i - 1)}

\* the response handed to a callback, as the callback sees it: whose callback
\* it is, the ID and the number of outputs of the response, never an error flag
Response(k, resp) ==
  [k |-> k, id |-> resp.id, error |-> FALSE, outputs |-> Len(resp.outputs)]

\* faulty variant: the loop index is never advanced past the first request
RequestAt_first(b, i) == 1

\* faulty variant: the loop runs from the last request down
RequestAt_reverse(b, i) == batches[b].nreq + 1 - i

\* the request the response loop handles in round i: k runs from 0 upwards
RequestAt(b, i) == i

\* one round of the response loop: add one output to the response of request
\* task_i for each input of the request, copying from the output Buffer, and
\* invoke the request's callback
TaskRespond(b) ==
  /\ ~crashed
  /\ task_pc[b] = "respond"
  /\ LET k == RequestAt(b, task_i[b]) IN
       /\ \E outputs \in Outputs(b, k) :
            responses' = [responses EXCEPT ![b][k].outputs = @ \o outputs]
       /\ callbacks' = [callbacks EXCEPT ![b] = Append(@, Response(k, responses'[b][k]))]
       /\ trace' = [trace EXCEPT ![b] =
                      @ \o [i \in 1..RequestInputs(b, k) |->
                              Event("memcpy", TensorCount(b, k) + i - 1)]
                        \o <<Event("callback", k)>>]
  /\ IF task_i[b] < batches[b].nreq
       THEN /\ task_i' = [task_i EXCEPT ![b] = @ + 1]
            /\ UNCHANGED task_pc
       ELSE /\ task_i' = [task_i EXCEPT ![b] = 0]
            /\ task_pc' = [task_pc EXCEPT ![b] = "return"]
  /\ UNCHANGED <<sutVars, hostVars, bufVars, pool_q, input_queue, batches, runVars, jobs, crashed>>

\* faulty variant: the sets go back to the pool before the response loop
TaskReturnBuffers_early(b) ==
  /\ ~crashed
  /\ \/ task_pc[b] = "respond" /\ task_i[b] = 1 /\ batches[b].input_buffers # <<>>
     \/ task_pc[b] = "return"
  /\ input_buffers_' = input_buffers_ \o batches[b].input_buffers
  /\ output_buffers_' = output_buffers_ \o batches[b].output_buffers
  /\ batches' = [batches EXCEPT ![b].input_buffers = <<>>, ![b].output_buffers = <<>>]
  /\ task_pc' = [task_pc EXCEPT ![b] = IF @ = "return" THEN "dec" ELSE @]
  /\ trace' = [trace EXCEPT ![b] =
                 IF task_pc[b] = "respond" THEN Append(@, Event("returnBuffers", 0)) ELSE @]
  /\ UNCHANGED <<sutVars, hostVars, pool_q, input_queue, runVars, task_i, jobs, callbacks,
                 responses, crashed>>

\* faulty variant: the sets are re-enqueued but the Batch keeps its handles
TaskReturnBuffers_keep(b) ==
  /\ ~crashed
  /\ task_pc[b] = "return"
  /\ input_buffers_' = input_buffers_ \o batches[b].input_buffers
  /\ output_buffers_' = output_buffers_ \o batches[b].output_buffers
  /\ task_pc' = [task_pc EXCEPT ![b] = "dec"]
  /\ trace' = [trace EXCEPT ![b] = Append(@, Event("returnBuffers", 0))]
  /\ UNCHANGED <<sutVars, hostVars, pool_q, input_queue, batches, runVars, task_i, jobs,
                 callbacks, responses, crashed>>

\* faulty variant: only the input sets go back to the pool
TaskReturnBuffers_inputOnly(b) ==
  /\ ~crashed
  /\ task_pc[b] = "return"
  /\ input_buffers_' = input_buffers_ \o batches[b].input_buffers
  /\ UNCHANGED output_buffers_
  /\ batches' = [batches EXCEPT ![b].input_buffers = <<>>, ![b].output_buffers = <<>>]
  /\ task_pc' = [task_pc EXCEPT ![b] = "dec"]
  /\ trace' = [trace EXCEPT ![b] = Append(@, Event("returnBuffers", 0))]
  /\ UNCHANGED <<sutVars, hostVars, pool_q, input_queue, runVars, task_i, jobs, callbacks,
                 responses, crashed>>

\* returnBuffers(std::move(input_buffers), std::move(output_buffers))
TaskReturnBuffers(b) ==
  /\ ~crashed
  /\ task_pc[b] = "return"
  /\ input_buffers_' = input_buffers_ \o batches[b].input_buffers
  /\ output_buffers_' = output_buffers_ \o batches[b].output_buffers
  /\ batches' = [batches EXCEPT ![b].input_buffers = <<>>, ![b].output_buffers = <<>>]
  /\ task_pc' = [task_pc EXCEPT ![b] = "dec"]
  /\ trace' = [trace EXCEPT ![b] = Append(@, Event("returnBuffers", 0))]
  /\ UNCHANGED <<sutVars, hostVars, pool_q, input_queue, runVars, task_i, jobs, callbacks,
                 responses, crashed>>

\* pool_size--: the counter is a local of doRun captured by reference; once
\* doRun has returned the decrement goes through a dangling reference and
\* either hits dead stack memory or kills the process.  The task ends and
\* its job tokens go with it
TaskDecrement(b) ==
  /\ ~crashed
  /\ task_pc[b] = "dec"
  /\ IF run_pc # "done"
       THEN /\ pool_size' = pool_size - 1
            /\ UNCHANGED crashed
       ELSE /\ UNCHANGED pool_size
            /\ crashed' \in {FALSE, TRUE}
  /\ task_pc' = [task_pc EXCEPT ![b] = IF crashed' THEN @ ELSE "done"]
  /\ jobs' = [jobs EXCEPT ![b] = IF crashed' THEN @ ELSE <<>>]
  /\ responses' = [responses EXCEPT ![b] = IF crashed' THEN @ ELSE <<>>]
  /\ trace' = [trace EXCEPT ![b] = IF crashed' THEN @ ELSE <<>>]
  /\ UNCHANGED <<sutVars, hostVars, bufVars, pool_q, input_queue, batches, run_pc, run_batch,
                 dequeued, pushes, slept, task_i, callbacks>>

\* ---- specification ----

Host ==
  \/ doInit(parameters)
  \/ doAllocate(AllocateNum)
  \/ doAcquire(parameters)
  \/ spawn
  \/ doRelease
  \/ doDeallocate
  \/ pool_join
  \/ doDestroy

Environment ==
  \/ \E nreq \in 1..MaxReqs : MakeBatch(nreq)
  \/ Shutdown
  \/ \E b \in BatchIds, i \in 1..MaxSets, st \in {"ok", "failed"} : JobComplete(b, i, st)

Run ==
  \/ RunDequeue
  \/ RunIncrement
  \/ RunCheck
  \/ RunSleep
  \/ RunPush

Task ==
  \E b \in BatchIds :
    \/ PoolPop(b)
    \/ TaskExecuteAsync(b)
    \/ TaskWait(b)
    \/ TaskRespond(b)
    \/ TaskReturnBuffers(b)
    \/ TaskDecrement(b)

Next == Host \/ Environment \/ Run \/ Task

Spec == Init /\ [][Next]_vars

\* every accelerator job completes, the pool threads and the Run thread are
\* scheduled fairly and the host goes on with the lifecycle
FairSpec ==
  /\ Spec
  /\ WF_vars(Task)
  /\ WF_vars(Run)
  /\ WF_vars(Host)
  /\ WF_vars(\E b \in BatchIds, i \in 1..MaxSets : JobComplete(b, i, "ok"))

\* ---- SystemUnderTest (completion adapter) ----

\* the id the load generator gives its k-th sample: all different, of one
\* and of two digits, not in the order of issue
SampleId(k) == (MaxSamples - k) * 5

\* the queries the load generator may issue: vectors of its next samples
Queries == {[i \in 1..n |-> SampleId(first + i)] : first \in 0..MaxSamples, n \in 1..MaxSamples}

\* std::to_string of an unsigned number: its decimal digits
RECURSIVE to_string(_)
to_string(n) == IF n < 10 THEN <<n>> ELSE Append(to_string(n \div 10), n % 10)

\* std::stoul of a string of decimal digits
RECURSIVE stoul(_)
stoul(str) ==
  IF str = <<>> THEN 0
  ELSE stoul(SubSeq(str, 1, Len(str) - 1)) * 10 + str[Len(str)]

\* the futures created so far
Issued == {f \in FutureIds : future_state[f] # "none"}

\* IssueQuery is entered with the samples of one query
IssueQuery(samples) ==
  /\ issue_samples = <<>>
  /\ Cardinality(Issued) + Len(samples) <= MaxSamples
  /\ samples[1] = SampleId(Cardinality(Issued) + 1)
  /\ issue_samples' = samples
  /\ UNCHANGED <<workerVars, queue_, request_id, future_state, resolved, futures,
                 finish_i, error_logged, completed>>

\* one round of IssueQuery's loop: set the request's ID, send it, enqueue the future
IssueQuery_sample ==
  /\ issue_samples # <<>>
  /\ LET f == Cardinality(Issued) + 1 IN
       /\ request_id' = [request_id EXCEPT ![f] = to_string(Head(issue_samples))]
       /\ future_state' = [future_state EXCEPT ![f] = "pending"]
       /\ queue_' = Append(queue_, f)
  /\ issue_samples' = Tail(issue_samples)
  /\ UNCHANGED <<workerVars, resolved, futures, finish_i, error_logged, completed>>

\* the server answers a request: its future resolves to a response or an error
Resolve(f, state) ==
  /\ future_state[f] = "pending"
  /\ future_state' = [future_state EXCEPT ![f] = state]
  /\ resolved' = Append(resolved, f)
  /\ UNCHANGED <<workerVars, queue_, issue_samples, request_id, futures, finish_i,
                 error_logged, completed>>

\* the response carries the ID of its request
ResponseID(f) == request_id[f]

\* wait_dequeue_bulk handing out the newest futures first
FinishQuery_dequeue_lifo ==
  /\ finish_i = 0
  /\ queue_ # <<>>
  /\ LET returned == IF Len(queue_) < kMaxBulk THEN Len(queue_) ELSE kMaxBulk IN
       /\ futures' = [i \in 1..returned |-> queue_[Len(queue_) + 1 - i]]
       /\ queue_' = Take(queue_, Len(queue_) - returned)
  /\ finish_i' = 1
  /\ UNCHANGED <<workerVars, issue_samples, request_id, future_state, resolved,
                 error_logged, completed>>

\* FinishQuery: wait_dequeue_bulk blocks until the queue holds a future, then takes up to max
FinishQuery_dequeue ==
  /\ finish_i = 0
  /\ queue_ # <<>>
  /\ LET returned == IF Len(queue_) < kMaxBulk THEN Len(queue_) ELSE kMaxBulk IN
       /\ futures' = Take(queue_, returned)
       /\ queue_' = Drop(queue_, returned)
  /\ finish_i' = 1
  /\ UNCHANGED <<workerVars, issue_samples, request_id, future_state, resolved,
                 error_logged, completed>>

\* FinishQuery's loop without the isError branch
FinishQuery_get_unchecked ==
  /\ finish_i \in 1..Len(futures)
  /\ LET future == futures[finish_i] IN
       /\ future_state[future] \in {"ok", "error"}
       /\ completed' = Append(completed, [id |-> stoul(ResponseID(future)),
                                          future |-> future])
       /\ UNCHANGED error_logged
  /\ IF finish_i = Len(futures)
       THEN finish_i' = 0 /\ futures' = <<>>
       ELSE finish_i' = finish_i + 1 /\ UNCHANGED futures
  /\ UNCHANGED <<workerVars, queue_, issue_samples, request_id, future_state, resolved>>

\* FinishQuery's loop leaving the thread at the first error response
FinishQuery_get_stop ==
  /\ finish_i \in 1..Len(futures)
  /\ LET future == futures[finish_i] IN
       /\ future_state[future] \in {"ok", "error"}
       /\ IF future_state[future] = "error"
            THEN /\ error_logged' = error_logged \cup {future}
                 /\ finish_i' = Len(futures) + 1
                 /\ UNCHANGED <<completed, futures>>
            ELSE /\ completed' = Append(completed, [id |-> stoul(ResponseID(future)),
                                                    future |-> future])
                 /\ IF finish_i = Len(futures)
                      THEN finish_i' = 0 /\ futures' = <<>>
                      ELSE finish_i' = finish_i + 1 /\ UNCHANGED futures
                 /\ UNCHANGED error_logged
  /\ UNCHANGED <<workerVars, queue_, issue_samples, request_id, future_state, resolved>>

\* FinishQuery: one round of the loop over the dequeued futures; get() blocks
\* until the future has resolved
FinishQuery_get ==
  /\ finish_i \in 1..Len(futures)
  /\ LET future == futures[finish_i] IN
       /\ future_state[future] \in {"ok", "error"}
       /\ IF future_state[future] = "error"
            THEN /\ error_logged' = error_logged \cup {future}
                 /\ UNCHANGED completed
            ELSE /\ completed' = Append(completed, [id |-> stoul(ResponseID(future)),
                                                    future |-> future])
                 /\ UNCHANGED error_logged
  /\ IF finish_i = Len(futures)
       THEN finish_i' = 0 /\ futures' = <<>>
       ELSE finish_i' = finish_i + 1 /\ UNCHANGED futures
  /\ UNCHANGED <<workerVars, queue_, issue_samples, request_id, future_state, resolved>>

FinishQuery == FinishQuery_dequeue \/ FinishQuery_get

SutNext ==
  \/ \E samples \in Queries : IssueQuery(samples)
  \/ IssueQuery_sample
  \/ \E f \in FutureIds, state \in {"ok", "error"} : Resolve(f, state)
  \/ FinishQuery

\* the adapter does not depend on the worker's deployment: one is enough
SutInit == Init /\ parameters = CHOOSE c \in Configurations : TRUE

SutSpec == SutInit /\ [][SutNext]_vars

\* every request is answered and the FinishQuery thread is scheduled fairly
SutFairSpec ==
  /\ SutSpec
  /\ WF_vars(FinishQuery)
  /\ WF_vars(\E f \in FutureIds, state \in {"ok", "error"} : Resolve(f, state))

\* ---- properties ----

\* how many Batches hold Buffer set s of a side
Holders(side, s) ==
  Cardinality({<<b, i>> \in UNION {{b} \X DOMAIN batches[b][side] : b \in BatchIds} :
                 batches[b][side][i] = s})

\* how many Buffer sets of a side are checked out to Batches
CheckedOut(side) ==
  Cardinality(UNION {{b} \X DOMAIN batches[b][side] : b \in BatchIds})

\* the Batches whose task has returned its Buffer sets
Returned == {b \in BatchIds : task_pc[b] \in {"dec", "done"}}

\* C1: every allocated Buffer set is either queued once in its pool queue or
\* held by exactly one Batch, never both, never neither, never by two
\* Batches; a Batch whose task has returned its sets holds none
C1_BufferSetInOnePlace ==
  /\ \A s \in 1..buffer_num :
       /\ Count(input_buffers_, s) + Holders("input_buffers", s) = 1
       /\ Count(output_buffers_, s) + Holders("output_buffers", s) = 1
  /\ Range(input_buffers_) \cup Range(output_buffers_) \subseteq 1..buffer_num
  /\ \A b \in Returned :
       batches[b].input_buffers = <<>> /\ batches[b].output_buffers = <<>>

\* a task has returned its sets to the pool while another Batch is being
\* executed with sets of its own
C1_Witness ==
  \E b1, b2 \in BatchIds :
    /\ b1 \in Returned
    /\ task_pc[b2] \in {"exec", "wait", "respond"}
    /\ batches[b2].input_buffers # <<>>
    /\ input_buffers_ # <<>>

\* C2: on each side the sets checked out to Batches plus the sets queued in
\* the pool are as many as doAllocate allocated
C2_PoolSizeConserved ==
  /\ Len(input_buffers_) + CheckedOut("input_buffers") = buffer_num
  /\ Len(output_buffers_) + CheckedOut("output_buffers") = buffer_num

\* sets have been checked out and returned, and some are checked out now
C2_Witness ==
  /\ buffer_num > 0
  /\ Returned # {}
  /\ CheckedOut("output_buffers") > 0
  /\ Len(output_buffers_) > 0

\* how often the callback of request k of Batch b was invoked
Invocations(b, k) ==
  Cardinality({i \in 1..Len(callbacks[b]) : callbacks[b][i].k = k})

\* C3: no callback of a request fires twice, none fires for a request the Batch
\* does not have, and once the response loop of a dispatched Batch is through
\* every request of the Batch has had its callback invoked exactly once
C3_CallbackExactlyOnce ==
  \A b \in BatchIds :
    /\ \A i \in 1..Len(callbacks[b]) : callbacks[b][i].k \in 1..batches[b].nreq
    /\ \A k \in 1..MaxReqs : Invocations(b, k) <= 1
    /\ callbacks[b] # <<>> => pushes[b] = 1
    /\ task_pc[b] \in {"return", "dec", "done"} =>
         \A k \in 1..batches[b].nreq : Invocations(b, k) = 1

\* the task of a Batch of two requests has finished
C3_Witness ==
  \E b \in BatchIds :
    /\ batches[b].nreq = 2
    /\ task_pc[b] = "done"
    /\ Len(callbacks[b]) = 2

\* C4: the callbacks of one Batch fire in the order of its request list
C4_CallbacksInRequestOrder ==
  \A b \in BatchIds :
    \A i, j \in 1..Len(callbacks[b]) :
      i < j => callbacks[b][i].k < callbacks[b][j].k

\* both callbacks of a Batch have fired, in order, before any callback of a
\* Batch that was dispatched earlier
C4_Witness ==
  \E b1, b2 \in BatchIds :
    /\ b1 < b2
    /\ task_pc[b1] \in {"exec", "wait", "respond"}
    /\ callbacks[b1] = <<>>
    /\ Len(callbacks[b2]) = 2

SentinelSeen == NULL \in Range(dequeued)

\* the Batches still in the Batch Queue
BehindSentinel == Range(input_queue) \ {NULL}

\* C5: once doRun has dequeued the sentinel it has returned and dequeues and
\* pushes nothing more; a Batch left in the queue is never pushed to the pool
\* and none of its callbacks fire
C5_SentinelEndsRun ==
  /\ [](SentinelSeen =>
          /\ run_pc = "done"
          /\ \A b \in BehindSentinel :
               pushes[b] = 0 /\ task_pc[b] = "none" /\ callbacks[b] = <<>>)
  /\ [][SentinelSeen =>
          /\ dequeued' = dequeued
          /\ pushes' = pushes
          /\ BehindSentinel \subseteq Range(input_queue')]_vars

\* the worker has been torn down and a Batch enqueued behind the sentinel is
\* still in the queue
C5_Witness ==
  /\ SentinelSeen
  /\ host_pc = "end"
  /\ BehindSentinel # {}

\* the callbacks of Batch b have all fired and its Buffer sets are back
Completed(b) ==
  /\ Len(callbacks[b]) = batches[b].nreq
  /\ batches[b].input_buffers = <<>>
  /\ batches[b].output_buffers = <<>>

\* C6: a Batch pushed to the pool before doRun dequeued the sentinel
\* eventually has all its callbacks invoked and its Buffer sets returned
C6_DispatchedBatchCompletes ==
  \A b \in BatchIds :
    (pushes[b] = 1 /\ ~SentinelSeen) ~> Completed(b)

\* C7: every Batch doRun dequeued is pushed to the pool exactly once, also the
\* ones it slept for; when the counter exceeds max_pool_size doRun sleeps, and
\* after the sleep it pushes the Batch it holds; nothing fails meanwhile
C7_BackpressureDelaysOnly ==
  /\ [](/\ \A b \in BatchIds : pushes[b] <= 1
        /\ \A b \in BatchIds :
             b \in Range(dequeued) => pushes[b] = (IF b = run_batch THEN 0 ELSE 1)
        /\ \A b \in BatchIds : pushes[b] = 1 => b \in Range(dequeued)
        /\ \A b \in slept : b \in Range(dequeued)
        /\ run_pc \in {"inc", "check", "sleep", "push"} => ~crashed)
  /\ [][/\ (run_pc = "check" /\ run_pc' # "check") =>
             run_pc' = (IF pool_size > max_pool_size THEN "sleep" ELSE "push")
        /\ (run_pc = "sleep" /\ run_pc' # "sleep") =>
             (run_pc' = "push" /\ run_batch' = run_batch)
        /\ run_pc \in {"check", "sleep"} => run_batch' = run_batch]_vars

\* doRun slept for a Batch and then pushed it to the pool
C7_Witness ==
  \E b \in slept : pushes[b] = 1 /\ pool_size > max_pool_size

\* C8: when doDeallocate has returned, every task pushed to the pool has run
\* to completion, so no Batch is in flight when doDestroy starts
C8_DestroyAfterCompletion ==
  host_pc \in {"destroy", "end"} =>
    /\ InFlight = {}
    /\ pool_q = <<>>
    /\ \A b \in BatchIds : pushes[b] = 1 => task_pc[b] = "done" /\ Completed(b)

\* doDestroy starts after tasks that were still in flight when doRun returned
\* (the counter was never brought back to 0) have finished
C8_Witness ==
  /\ host_pc = "destroy"
  /\ pool_size > 0
  /\ \E b \in BatchIds : pushes[b] = 1 /\ task_pc[b] = "done"

\* the hook that begins in this step
Begins(hook) == hooks' = Append(hooks, hook)

\* C9: Release, Deallocate and Destroy begin in that order, each only after
\* doRun has seen the sentinel and with no dispatched Batch in flight
C9_TeardownAfterQuiescence ==
  [][/\ Begins("Release") => hooks[Len(hooks)] = "Run"
     /\ Begins("Deallocate") => hooks[Len(hooks)] = "Release"
     /\ Begins("Destroy") => hooks[Len(hooks)] = "Deallocate"
     /\ (Begins("Release") \/ Begins("Deallocate") \/ Begins("Destroy")) =>
          (SentinelSeen /\ run_pc = "done" /\ InFlight = {})]_vars

\* a job of Batch b has been reported as failed by the runtime
JobFailed(b) == \E i \in 1..Len(jobs[b]) : jobs[b][i] = "failed"

\* C10: the response handed to the callback of a request of a Batch with a failed
\* job is error-flagged, and the callback fires once
C10_FailureIsErrorFlagged ==
  \A b \in BatchIds :
    JobFailed(b) =>
      /\ \A i \in 1..Len(callbacks[b]) : callbacks[b][i].error
      /\ \A k \in 1..MaxReqs : Invocations(b, k) <= 1

\* ---- properties of the completion adapter ----

\* the futures FinishQuery has taken from the queue and gone past
Handled ==
  {f \in Issued : /\ f \notin Range(queue_)
                  /\ \A i \in 1..Len(futures) : futures[i] = f => i < finish_i}

\* the calls of QuerySamplesComplete made for future f
Reports(f) == {i \in 1..Len(completed) : completed[i].future = f}

\* C11: a future that resolved to a response is reported to the sink once
\* it has been handled, exactly once and with the id of its own sample; a
\* future that resolved to an error is never reported; no id is reported twice
C11_ReportedExactlyOnce ==
  /\ \A f \in FutureIds :
       /\ Cardinality(Reports(f)) <= 1
       /\ future_state[f] # "ok" => Reports(f) = {}
       /\ f \in Handled /\ future_state[f] = "ok" => Cardinality(Reports(f)) = 1
       /\ f \in Handled /\ future_state[f] = "error" => f \in error_logged
  /\ \A i \in 1..Len(completed) :
       /\ completed[i].id = SampleId(completed[i].future)
       /\ \A j \in 1..Len(completed) : completed[i].id = completed[j].id => i = j

\* every future has been handled, one of them failed and the others were reported
C11_Witness ==
  /\ Handled = FutureIds
  /\ Cardinality(error_logged) = 1
  /\ Len(completed) = MaxSamples - 1

\* C12: an error response does not stop FinishQuery: every future that
\* resolved to a response, enqueued before or after a failed one, is
\* eventually reported (every request answered, FinishQuery scheduled fairly)
C12_ErrorDoesNotStopDrain ==
  \A f \in FutureIds : (future_state[f] = "ok") ~> (Reports(f) # {})

\* a failed future was logged between two futures that were both reported
C12_Witness ==
  \E e \in error_logged : \E f, g \in FutureIds :
    /\ f < e /\ e < g
    /\ Reports(f) # {} /\ Reports(g) # {}

\* the position of future f in the order of resolution, 0 while it is pending
ResolvedAt(f) ==
  IF f \in Range(resolved) THEN CHOOSE i \in 1..Len(resolved) : resolved[i] = f ELSE 0

\* the position of the report of future f among the reports, 0 without one
ReportedAt(f) == IF Reports(f) = {} THEN 0 ELSE CHOOSE i \in Reports(f) : TRUE

\* C13: results are reported in the order in which the futures resolve: when
\* A resolved to a response before B did and B has been reported, A was
\* reported before B, whatever the order in which they were enqueued
C13_ReportsInResolutionOrder ==
  \A A, B \in FutureIds :
    /\ future_state[A] = "ok" /\ future_state[B] = "ok"
    /\ ResolvedAt(A) < ResolvedAt(B)
    /\ Reports(B) # {}
    => Reports(A) # {} /\ ReportedAt(A) < ReportedAt(B)

\* C13 as the code has it: results are reported in the order in which the
\* futures were enqueued (a future gets its number when it is enqueued),
\* also when a future enqueued later resolved earlier
C13_ReportsInEnqueueOrder ==
  \A i, j \in 1..Len(completed) : i < j => completed[i].future < completed[j].future

\* B was enqueued before A, A resolved before B, and both have been
\* reported, B first
C13_Witness ==
  \E A, B \in FutureIds :
    /\ B < A
    /\ ResolvedAt(A) < ResolvedAt(B)
    /\ Reports(A) # {} /\ Reports(B) # {}
    /\ ReportedAt(B) < ReportedAt(A)

\* ---- further properties of the worker ----

\* every Batch built so far was dispatched and its task has finished
AllCompleted == Created # {} /\ \A b \in Created : pushes[b] = 1 /\ task_pc[b] = "done"

\* C14: once every dispatched Batch has completed the worker is quiescent:
\* both pool queues hold the allocated number of Buffer sets again, every
\* request got its callback (6 callbacks for three Batches of 2 requests)
\* and the in-flight counter is back to 0
C14_QuiescentAfterCompletion ==
  AllCompleted =>
    /\ Len(input_buffers_) = buffer_num
    /\ Len(output_buffers_) = buffer_num
    /\ \A b \in Created : Len(callbacks[b]) = batches[b].nreq
    /\ pool_size = 0

\* C15: the response handed to the callback of the request at position k of
\* a Batch carries the identifier of that request and of no other request,
\* of the same Batch or of another one, and holds one output tensor for each
\* input tensor of that request
C15_ResponseCorrelation ==
  LET requests == Requests IN
    \A b \in BatchIds : \A i \in 1..Len(callbacks[b]) :
      LET r == callbacks[b][i] IN
        /\ r.id = RequestID(b, r.k)
        /\ \A other \in requests : r.id = RequestID(other[1], other[2]) => other = <<b, r.k>>
        /\ r.outputs = RequestInputs(b, r.k)

\* two Batches of two requests are in their response loops at the same time,
\* each with a callback behind it
C15_Witness ==
  \E b1, b2 \in BatchIds :
    /\ b1 # b2
    /\ batches[b1].nreq = 2 /\ batches[b2].nreq = 2
    /\ task_pc[b1] = "respond" /\ task_pc[b2] = "respond"
    /\ Len(callbacks[b1]) = 1 /\ Len(callbacks[b2]) = 1

\* the order in which the host runs the hooks of a worker
Lifecycle == <<"Init", "Allocate", "Acquire", "Run", "Release", "Deallocate", "Destroy">>

Served == {b \in BatchIds : /\ task_pc[b] \in {"respond", "return", "dec"}
                            /\ \A i \in 1..Len(jobs[b]) : jobs[b][i] = "ok"}

\* C17: with a runtime that copies each job's input Buffer set to its output
\* Buffer set, for every Batch, also one with more than one Buffer set, and
\* every request of it, the data of the i-th output tensor of the response
\* is the data of the i-th input tensor of the request, and its shape is the
\* runtime's output shape without the leading dimension
C17_IdentityRoundTrip ==
  \A b \in Served : \A k \in 1..Len(responses[b]) :
    \A i \in 1..Len(responses[b][k].outputs) :
      /\ responses[b][k].outputs[i].data = InputData(b, k, i)
      /\ responses[b][k].outputs[i].shape = Tail(output_shape)

\* the positions of the trace of Batch b at which op was done
Positions(b, op) == {p \in 1..Len(trace[b]) : trace[b][p][1] = op}

\* the task of Batch b is in wait(job, -1) for a job that has not finished
Blocked(b) == task_pc[b] = "wait" /\ jobs[b][task_i[b]] = "running"

\* the task of Batch b has waited for every job it submitted before position p
AllWaitedBefore(b, p) ==
  \A s \in Positions(b, "execute_async") :
    \E w \in Positions(b, "wait") : w < p /\ trace[b][w][2] = trace[b][s][2]

\* in the response loop every job of the Batch was submitted and has finished;
\* no output was copied and no callback invoked before every job was waited for
WaitedBeforeResponding ==
  \A b \in BatchIds :
    /\ task_pc[b] = "respond" =>
         /\ Len(jobs[b]) = SetsFor(batches[b].nreq)
         /\ \A i \in 1..Len(jobs[b]) : jobs[b][i] # "running"
    /\ LET first == Positions(b, "memcpy") \cup Positions(b, "callback")
       IN first # {} =>
            /\ Cardinality(Positions(b, "execute_async")) = SetsFor(batches[b].nreq)
            /\ AllWaitedBefore(b, CHOOSE p \in first : \A q \in first : p <= q)

\* a task in wait(job, -1) for an unfinished job does not move
BlockedStays ==
  \A b \in BatchIds :
    Blocked(b) => /\ task_pc'[b] = "wait"
                  /\ task_i'[b] = task_i[b]
                  /\ callbacks'[b] = callbacks[b]

\* C18: a task invokes no callback and reads no output Buffer before it has
\* waited for every job of its Batch, and the wait has no timeout: while a
\* job does not finish its task stays in the wait
C18_WaitBeforeRespond == []WaitedBeforeResponding /\ [][BlockedStays]_vars

\* a task is blocked on a job that has not finished while the task of a
\* Batch dispatched after it has gone through all its callbacks and ended
C18_Witness ==
  \E b1, b2 \in BatchIds :
    /\ b1 < b2
    /\ Blocked(b1)
    /\ task_pc[b2] = "done"
    /\ Len(callbacks[b2]) = batches[b2].nreq

\* the Batches that exist and have not yet returned their Buffer sets: their
\* callbacks are still to come or running
Holding == Created \ Returned

\* C19: a Batch returns its input and output Buffer sets exactly once, after
\* its last callback and as the last thing its task does before it drops the
\* counter and ends; until then it holds them, none of them is in a pool
\* queue and none is held by another Batch, so the callbacks of two Batches
\* never work on the same Buffer set at the same time
C19_ReturnAfterLastCallback ==
  /\ \A b \in BatchIds :
       LET returns == Positions(b, "returnBuffers")
           calls == Positions(b, "callback")
       IN /\ Cardinality(returns) = IF task_pc[b] = "dec" THEN 1 ELSE 0
          /\ \A p \in returns :
               /\ Cardinality(calls) = batches[b].nreq
               /\ \A q \in calls : q < p
               /\ p = Len(trace[b])
  /\ \A b \in Holding :
       /\ Len(batches[b].input_buffers) = SetsFor(batches[b].nreq)
       /\ Len(batches[b].output_buffers) = SetsFor(batches[b].nreq)
       /\ Range(batches[b].input_buffers) \cap Range(input_buffers_) = {}
       /\ Range(batches[b].output_buffers) \cap Range(output_buffers_) = {}
       /\ \A other \in Holding \ {b} :
            /\ Range(batches[b].input_buffers) \cap Range(batches[other].input_buffers) = {}
            /\ Range(batches[b].output_buffers) \cap Range(batches[other].output_buffers) = {}

\* the pool has one Buffer set: a Batch has returned it after its callbacks
\* and the next Batch has had its callbacks on it and is about to return it
C19_Witness ==
  /\ buffer_num = 1
  /\ \E b1, b2 \in BatchIds :
       /\ task_pc[b1] = "done" /\ Len(callbacks[b1]) = batches[b1].nreq
       /\ task_pc[b2] = "return" /\ Len(callbacks[b2]) = batches[b2].nreq
       /\ batches[b2].input_buffers = <<1>>

\* C20: when the kernel is not DPUCADF8H the input Buffers of a job are
\* synced for writing before the job is submitted, and every output Buffer
\* of the Batch is synced for reading after the last wait and before the
\* first copy of an output; when the kernel is DPUCADF8H no Buffer is synced
C20_SyncHandshake ==
  \A b \in BatchIds :
    LET writes == Positions(b, "sync_for_write")
        reads == Positions(b, "sync_for_read")
        waits == Positions(b, "wait")
        copies == Positions(b, "memcpy")
    IN IF kernel_ # "DPUCADF8H"
         THEN /\ \A p \in Positions(b, "execute_async") :
                   \E q \in writes : q < p /\ trace[b][q][2] = trace[b][p][2]
              /\ copies # {} =>
                   /\ {trace[b][q][2] : q \in reads} = 1..SetsFor(batches[b].nreq)
                   /\ Cardinality(waits) = SetsFor(batches[b].nreq)
                   /\ \A q \in reads : /\ \A p \in copies : q < p
                                        /\ \A w \in waits : w < q
         ELSE writes \cup reads = {}

\* a Batch on two Buffer sets has had both output Buffers synced and its
\* outputs copied
C20_Witness ==
  /\ kernel_ # "DPUCADF8H"
  /\ \E b \in BatchIds :
       /\ Cardinality(Positions(b, "sync_for_write")) = 2
       /\ Cardinality(Positions(b, "sync_for_read")) = 2
       /\ Cardinality(Positions(b, "memcpy")) = 2

\* the task of Batch b executes its pool_size-- in this step
Decrements(b) ==
  /\ task_pc[b] = "dec"
  /\ task_pc'[b] = "done" \/ crashed' # crashed

\* doRun has returned: its local pool_size is dead
CounterDead == run_pc = "done"

\* C21: the in-flight counter is only accessed while it is alive: no pool
\* task executes its pool_size-- after doRun has returned on the sentinel
C21_CounterAliveAtDecrement ==
  [][\A b \in BatchIds : Decrements(b) => ~CounterDead]_vars

====
